---------------------------- MODULE Spec2Model ----------------------------
(***************************************************************************)
(* A model of the trading back-tester: the price-path generator            *)
(* (data.py), the indicator engine (indicators.py), the portfolio/ledger   *)
(* primitives (process.py) and the three policies (strategy.py).           *)
(*                                                                         *)
(* Numbers.  Python floats are modelled as exact rationals <<num, den>>    *)
(* in lowest terms with den > 0; not-a-number is the pair <<0, 0>>.        *)
(* Arithmetic propagates NaN and every ordered comparison with NaN is      *)
(* FALSE, as in IEEE-754.  Rounding error of binary floating point is not  *)
(* modelled.  Arrays are functions on 0 .. len-1, as in Python.            *)
(***************************************************************************)
EXTENDS Integers, Sequences, FiniteSets, TLC

VARIABLES
    pc,            \* position of the running operation / policy
    args,          \* the arguments of the running policy (a record)
    stock_prices,  \* the price matrix: stock_prices[day][stock]
    portfolio,     \* portfolio[stock]: number of shares held
    ledger,        \* the ledger file: a sequence of entries, in write order
    last,          \* the most recent call of a process.py primitive
    trade_day,     \* loop variable of the policies
    stock_number,  \* loop variable of the policies
    cool_off,      \* momentum: per-stock cool-off counters
    series,        \* the indicator series a policy computed before its loop
    gen,           \* generate_stock_price: its locals
    ind,           \* indicator engine: an input and the series computed
    output         \* get_data: what it printed and what it returned

vars == <<pc, args, stock_prices, portfolio, ledger, last, trade_day,
          stock_number, cool_off, series, gen, ind, output>>

---------------------------------------------------------------------------
(* Floats *)

NaN == <<0, 0>>

IsNan(x) == x[2] = 0

Abs(i) == IF i < 0 THEN -i ELSE i

RECURSIVE GCD(_, _)
GCD(a, b) == IF b = 0 THEN a ELSE GCD(b, a % b)

\* the rational n/d (d # 0) in lowest terms with a positive denominator
FNorm(n, d) ==
    LET s == IF d < 0 THEN -1 ELSE 1
        g == GCD(Abs(n), Abs(d))
    IN  <<(s * n) \div g, (s * d) \div g>>

F(i) == <<i, 1>>

FAdd(a, b) == IF IsNan(a) \/ IsNan(b) THEN NaN
              ELSE FNorm(a[1] * b[2] + b[1] * a[2], a[2] * b[2])

FNeg(a) == IF IsNan(a) THEN NaN ELSE <<-a[1], a[2]>>

FSub(a, b) == FAdd(a, FNeg(b))

FMul(a, b) == IF IsNan(a) \/ IsNan(b) THEN NaN
              ELSE FNorm(a[1] * b[1], a[2] * b[2])

\* a / b; the model never divides by zero (every divisor in the code is a
\* positive price, a non-zero range or a non-zero mean)
FDiv(a, b) == IF IsNan(a) \/ IsNan(b) THEN NaN
              ELSE FNorm(a[1] * b[2], a[2] * b[1])

FAbs(a) == IF IsNan(a) THEN NaN ELSE <<Abs(a[1]), a[2]>>

FLt(a, b) == ~IsNan(a) /\ ~IsNan(b) /\ a[1] * b[2] < b[1] * a[2]
FLe(a, b) == ~IsNan(a) /\ ~IsNan(b) /\ a[1] * b[2] <= b[1] * a[2]
FGt(a, b) == FLt(b, a)
FGe(a, b) == FLe(b, a)
FEq(a, b) == ~IsNan(a) /\ ~IsNan(b) /\ a = b

\* Python's int() of a finite float: truncation toward zero
IntOf(a) == IF a[1] >= 0 THEN a[1] \div a[2] ELSE -((-a[1]) \div a[2])

\* the mathematical floor of a finite rational (not what the code computes)
Floor(a) == a[1] \div a[2]

---------------------------------------------------------------------------
(* Arrays indexed from 0 *)

Len0(a) == Cardinality(DOMAIN a)

Empty0 == [i \in {} |-> NaN]

Append0(a, x) == [i \in 0 .. Len0(a) |-> IF i < Len0(a) THEN a[i] ELSE x]

\* a[lo:hi] for 0 <= lo <= hi <= len(a)
Slice0(a, lo, hi) == [i \in 0 .. (hi - lo - 1) |-> a[lo + i]]

RECURSIVE SumUpTo(_, _)
SumUpTo(a, k) == IF k = 0 THEN F(0) ELSE FAdd(SumUpTo(a, k - 1), a[k - 1])

\* np.average of a non-empty array
Average(a) == FDiv(SumUpTo(a, Len0(a)), F(Len0(a)))


\* the 0-based array holding the elements of a tuple
Arr(t) == [i \in 0 .. (Len(t) - 1) |-> t[i + 1]]

---------------------------------------------------------------------------
(* process.py: the ledger and the portfolio primitives *)

\* |x| in hundredths, rounded to the nearest integer, ties to even
Hundredths(x) ==
    LET num == Abs(x[1]) * 100
        q == num \div x[2]
        r == num % x[2]
    IN  IF 2 * r > x[2] THEN q + 1
        ELSE IF 2 * r = x[2] THEN q + (q % 2)
        ELSE q

\* "{:.2f}".format(x): "nan", or a sign, the integer digits and two
\* decimals; negative_zero when x is the float -0.0, which prints as -0.00
Format2f(x, negative_zero) ==
    IF IsNan(x)
    THEN [nan |-> TRUE, minus |-> FALSE, whole |-> 0, cents |-> 0]
    ELSE [nan |-> FALSE,
          minus |-> (x[1] < 0) \/ negative_zero,
          whole |-> Hundredths(x) \div 100,
          cents |-> Hundredths(x) % 100]

\* mutant: a sale is logged with the sign of a purchase
LogTransactionAllSpent(transaction_type, date, stock, number_of_shares, price, fees) ==
    LET total_spent == FNeg(FAdd(FMul(F(number_of_shares), price), fees))
    IN  [type |-> transaction_type, date |-> date, stock |-> stock,
         shares |-> number_of_shares, price |-> price, total |-> total_spent,
         text |-> <<transaction_type, date, stock, number_of_shares,
                    Format2f(price, FALSE), Format2f(total_spent, FALSE)>>]

\* the line log_transaction writes: the fields in the order of the text,
\* the last one the signed amount of money of the transaction; `text` is
\* the line itself, its fields separated by commas
LogTransaction(transaction_type, date, stock, number_of_shares, price, fees) ==
    LET total_spent ==
            IF transaction_type = "buy"
            THEN FNeg(FAdd(FMul(F(number_of_shares), price), fees))
            ELSE FSub(FMul(F(number_of_shares), price), fees)
        \* float(-(x)) of x = 0.0 is -0.0
        negative_zero == transaction_type = "buy" /\ total_spent = F(0)
    IN  [type |-> transaction_type, date |-> date, stock |-> stock,
         shares |-> number_of_shares, price |-> price, total |-> total_spent,
         text |-> <<transaction_type, date, stock, number_of_shares,
                    Format2f(price, FALSE),
                    Format2f(total_spent, negative_zero)>>]

\* number_of_shares = int((available_capital - fees) / price)
SharesBought(available_capital, fees, price) ==
    IntOf(FDiv(FSub(available_capital, fees), price))

\* int() of not-a-number raises ValueError before buy changes anything
BuyRaises(date, stock) == IsNan(stock_prices[date][stock])

\* mutant: the line of a purchase is written at the head of the file
BuyLogsFirst(date, stock, available_capital, fees) ==
    LET price == stock_prices[date][stock]
        number_of_shares == SharesBought(available_capital, fees, price)
    IN  IF BuyRaises(date, stock)
        THEN /\ UNCHANGED <<portfolio, ledger>>
             /\ last' = [op |-> "raise", date |-> date, stock |-> stock,
                         capital |-> available_capital, fees |-> fees,
                         before |-> portfolio]
        ELSE /\ portfolio' = [portfolio EXCEPT ![stock] = @ + number_of_shares]
             /\ ledger' = <<LogTransaction("buy", date, stock,
                                           number_of_shares, price, fees)>>
                           \o ledger
             /\ last' = [op |-> "buy", date |-> date, stock |-> stock,
                         capital |-> available_capital, fees |-> fees,
                         before |-> portfolio]

\* buy(date, stock, available_capital, stock_prices, fees, portfolio, ledger)
Buy(date, stock, available_capital, fees) ==
    LET price == stock_prices[date][stock]
        number_of_shares == SharesBought(available_capital, fees, price)
    IN  IF BuyRaises(date, stock)
        THEN /\ UNCHANGED <<portfolio, ledger>>
             /\ last' = [op |-> "raise", date |-> date, stock |-> stock,
                         capital |-> available_capital, fees |-> fees,
                         before |-> portfolio]
        ELSE /\ portfolio' = [portfolio EXCEPT ![stock] = @ + number_of_shares]
             /\ ledger' = Append(ledger, LogTransaction("buy", date, stock,
                                            number_of_shares, price, fees))
             /\ last' = [op |-> "buy", date |-> date, stock |-> stock,
                         capital |-> available_capital, fees |-> fees,
                         before |-> portfolio]

\* mutant: the fees of a sale are left out of its cash flow
SellNoFees(date, stock, fees) ==
    LET price == stock_prices[date][stock]
        number_of_shares == portfolio[stock]
    IN  /\ portfolio' = [portfolio EXCEPT ![stock] = 0]
        /\ ledger' = Append(ledger, LogTransaction("sell", date, stock,
                                       number_of_shares, price, F(0)))
        /\ last' = [op |-> "sell", date |-> date, stock |-> stock,
                    capital |-> NaN, fees |-> fees, before |-> portfolio]

\* mutant: a sale is logged but the position is kept
SellKeepsPosition(date, stock, fees) ==
    LET price == stock_prices[date][stock]
        number_of_shares == portfolio[stock]
    IN  /\ portfolio' = portfolio
        /\ ledger' = Append(ledger, LogTransaction("sell", date, stock,
                                       number_of_shares, price, fees))
        /\ last' = [op |-> "sell", date |-> date, stock |-> stock,
                    capital |-> NaN, fees |-> fees, before |-> portfolio]

\* sell(date, stock, stock_prices, fees, portfolio, ledger)
Sell(date, stock, fees) ==
    LET price == stock_prices[date][stock]
        number_of_shares == portfolio[stock]
    IN  /\ portfolio' = [portfolio EXCEPT ![stock] = 0]
        /\ ledger' = Append(ledger, LogTransaction("sell", date, stock,
                                       number_of_shares, price, fees))
        /\ last' = [op |-> "sell", date |-> date, stock |-> stock,
                    capital |-> NaN, fees |-> fees, before |-> portfolio]

NoCall == [op |-> "none", date |-> 0, stock |-> 0, capital |-> NaN,
           fees |-> NaN, before |-> Empty0]

\* nothing printed and nothing returned
NoOutput == [printed |-> <<>>, returned |-> "nothing"]

\* the shape of the price matrix
Days == Len0(stock_prices)
N == Len0(stock_prices[0])

\* create_portfolio: portfolio = [0] * N, then one iteration of
\* "for i in range(N): buy(0, i, available_amounts[i], ...)" per step
CreatePortfolioStep ==
    /\ pc = "create"
    /\ stock_number < N
    /\ Buy(0, stock_number, args.available_amounts[stock_number], args.fees)
    /\ stock_number' = stock_number + 1
    /\ pc' = IF BuyRaises(0, stock_number) THEN "error" ELSE "create"
    /\ UNCHANGED <<args, stock_prices, trade_day, cool_off, series, gen, ind, output>>

---------------------------------------------------------------------------
(* The primitives of process.py called directly: create_portfolio, then any *)
(* sequence of buy and sell calls.                                          *)

\* bound: the number of buy/sell calls made after create_portfolio
MaxCalls == 2

ProcMatrices ==
    { Arr(<<Arr(<<F(a), F(3)>>), Arr(<<F(3), b>>)>>) :
          a \in {2, 3}, b \in {F(1), NaN} }

ProcCapitals == {1, 5, 7}

ProcFees == {0, 2}

NoArgs == [policy |-> "none", available_amounts |-> Empty0, fees |-> NaN]

Idle == /\ trade_day = 0
        /\ cool_off = Empty0
        /\ series = Empty0

GenIdle == gen = Empty0

IndIdle == ind = Empty0

InitProc ==
    /\ pc = "create"
    /\ stock_prices \in ProcMatrices
    /\ \E a0 \in ProcCapitals, a1 \in ProcCapitals, f \in ProcFees :
          args = [policy |-> "none",
                  available_amounts |-> Arr(<<F(a0), F(a1)>>),
                  fees |-> F(f)]
    /\ portfolio = [i \in 0 .. 1 |-> 0]
    /\ ledger = <<>>
    /\ last = NoCall
    /\ stock_number = 0
    /\ Idle /\ GenIdle /\ IndIdle
    /\ output = NoOutput

\* create_portfolio returns the portfolio to a caller that goes on to call
\* buy and sell itself
ProcReturn ==
    /\ pc = "create"
    /\ args.policy = "none"
    /\ stock_number = N
    /\ pc' = "calls"
    /\ UNCHANGED <<args, stock_prices, portfolio, ledger, last, trade_day,
                   stock_number, cool_off, series, gen, ind, output>>

CallsMade == Len(ledger) - N

ProcBuy ==
    /\ pc = "calls"
    /\ CallsMade < MaxCalls
    /\ \E date \in 0 .. (Days - 1), stock \in 0 .. (N - 1),
          capital \in ProcCapitals :
          /\ Buy(date, stock, F(capital), args.fees)
          /\ pc' = IF BuyRaises(date, stock) THEN "error" ELSE "calls"
    /\ UNCHANGED <<args, stock_prices, trade_day, stock_number, cool_off,
                   series, gen, ind, output>>

ProcSell ==
    /\ pc = "calls"
    /\ CallsMade < MaxCalls
    /\ \E date \in 0 .. (Days - 1), stock \in 0 .. (N - 1) :
          Sell(date, stock, args.fees)
    /\ UNCHANGED <<pc, args, stock_prices, trade_day, stock_number, cool_off,
                   series, gen, ind, output>>

NextProc == CreatePortfolioStep \/ ProcReturn \/ ProcBuy \/ ProcSell

SpecProc == InitProc /\ [][NextProc]_vars

---------------------------------------------------------------------------
(* log_transaction called directly, once, on a ledger file that does not   *)
(* exist yet.                                                              *)

LogTypes == {"buy", "sell"}

LogDates == {5, 8}

LogStocks == {1, 2}

LogShares == {0, 1, 10}

\* 100, 2.5, 0.125 and the failure marker
LogPrices == {F(100), <<5, 2>>, <<1, 8>>, NaN}

LogFees == {0, 20, 50}

InitLog ==
    /\ pc = "log"
    /\ \E t \in LogTypes, d \in LogDates, s \in LogStocks, k \in LogShares,
          p \in LogPrices, f \in LogFees :
          args = [policy |-> "none", transaction_type |-> t, date |-> d,
                  stock |-> s, number_of_shares |-> k, price |-> p,
                  fees |-> F(f)]
    /\ stock_prices = Empty0
    /\ portfolio = Empty0
    /\ ledger = <<>>
    /\ last = NoCall
    /\ stock_number = 0
    /\ Idle /\ GenIdle /\ IndIdle
    /\ output = NoOutput

\* log_transaction(transaction_type, date, stock, number_of_shares, price,
\* fees, ledger_file)
LogCall ==
    /\ pc = "log"
    /\ ledger' = Append(ledger,
                     LogTransaction(args.transaction_type, args.date,
                                    args.stock, args.number_of_shares,
                                    args.price, args.fees))
    /\ pc' = "logged"
    /\ UNCHANGED <<args, stock_prices, portfolio, last, trade_day,
                   stock_number, cool_off, series, gen, ind, output>>

NextLog == LogCall

SpecLog == InitLog /\ [][NextLog]_vars

---------------------------------------------------------------------------
(* data.py: generate_stock_price and news *)

\* bound: the number of days generate_stock_price is asked for
GenDays == 5

GenInitialPrices == {2}

GenVolatilities == {1, 2}

\* outcomes of rng.normal(0, volatility) the model draws
Increments == {-2, 1}

\* outcomes of rng.normal(0, 2.0) the model draws for the news magnitude m
NewsM == {-1, 3}

\* outcomes of rng.integers(3, 15) the model draws
NewsDurations == {3, 4}

Zeros(k) == [i \in 0 .. (k - 1) |-> F(0)]

\* news(chance, volatility): the arrays it can return, drift * ones(duration)
\* when there is news today and zeros(1) otherwise
News(volatility) ==
    { Zeros(1) } \cup
    { [i \in 0 .. (duration - 1) |-> FMul(F(m), F(volatility))] :
          m \in NewsM, duration \in NewsDurations }

\* mutant: the part of an impulse past the last day wraps to the first days
AddDriftWrapping(totalDrift, d, day, days) ==
    [i \in DOMAIN totalDrift |->
        IF \E j \in DOMAIN d : (day + j) % days = i
        THEN FAdd(totalDrift[i], d[0])
        ELSE totalDrift[i]]

\* totalDrift after the impulse d drawn on `day` is added to it
AddDrift(totalDrift, d, day, days) ==
    LET duration == Len0(d)
    IN  IF day + duration > days
        THEN \* totalDrift[day:] += d[day+duration-days:]
             [i \in DOMAIN totalDrift |->
                 IF i >= day
                 THEN FAdd(totalDrift[i], d[(day + duration - days) + (i - day)])
                 ELSE totalDrift[i]]
        ELSE \* totalDrift[day:day+duration] += d
             [i \in DOMAIN totalDrift |->
                 IF i >= day /\ i < day + duration
                 THEN FAdd(totalDrift[i], d[i - day])
                 ELSE totalDrift[i]]

\* mutant: a failed previous day counts as price 0, so the path can recover
PriceOfDayRecovering(previous, inc, drift) ==
    LET NewPriceToday ==
            FAdd(FAdd(IF IsNan(previous) THEN F(0) ELSE previous, inc), drift)
    IN  IF FLe(NewPriceToday, F(0)) THEN NaN ELSE NewPriceToday

\* the value stored in stock_prices[day]
PriceOfDay(previous, inc, drift) ==
    LET NewPriceToday == FAdd(FAdd(previous, inc), drift)
    IN  IF FLe(NewPriceToday, F(0)) THEN NaN ELSE NewPriceToday

InitGen ==
    /\ pc = "gen"
    /\ \E p0 \in GenInitialPrices, vol \in GenVolatilities :
          gen = [days |-> GenDays, initial_price |-> F(p0), volatility |-> vol,
                 stock_prices |-> [i \in 0 .. (GenDays - 1) |->
                                      IF i = 0 THEN F(p0) ELSE F(0)],
                 totalDrift |-> Zeros(GenDays),
                 day |-> 1,
                 inc |-> Zeros(GenDays),
                 news |-> [i \in 0 .. (GenDays - 1) |-> Zeros(1)]]
    /\ args = NoArgs
    /\ stock_prices = Empty0
    /\ portfolio = Empty0
    /\ ledger = <<>>
    /\ last = NoCall
    /\ stock_number = 0
    /\ Idle /\ IndIdle
    /\ output = NoOutput

\* one iteration of "for day in range(1, days)"; gen.inc and gen.news keep
\* the values of the locals inc and d of each iteration
GenStep ==
    /\ pc = "gen"
    /\ gen.day < gen.days
    /\ \E i \in Increments, d \in News(gen.volatility) :
          LET day == gen.day
              inc == F(i)
              totalDrift == AddDrift(gen.totalDrift, d, day, gen.days)
              price == PriceOfDay(gen.stock_prices[day - 1], inc, totalDrift[day])
          IN  gen' = [gen EXCEPT !.stock_prices[day] = price,
                                 !.totalDrift = totalDrift,
                                 !.inc[day] = inc,
                                 !.news[day] = d,
                                 !.day = day + 1]
    /\ UNCHANGED <<pc, args, stock_prices, portfolio, ledger, last, trade_day,
                   stock_number, cool_off, series, ind, output>>

\* return stock_prices
GenReturn ==
    /\ pc = "gen"
    /\ gen.day >= gen.days
    /\ pc' = "gen_done"
    /\ UNCHANGED <<args, stock_prices, portfolio, ledger, last, trade_day,
                   stock_number, cool_off, series, gen, ind, output>>

NextGen == GenStep \/ GenReturn

SpecGen == InitGen /\ [][NextGen]_vars

---------------------------------------------------------------------------
(* data.py: get_data with method 'generate' *)

\* bound: the days get_data generates, standing for days = 1825
GetDataDays == 3

\* an argument left at its default None, and one given as a list
None == [given |-> FALSE, list |-> Empty0]
Given(list) == [given |-> TRUE, list |-> list]

DataInitialPrices ==
    {None, Given(Empty0), Given(Arr(<<F(2)>>)), Given(Arr(<<F(2), F(3)>>))}

DataVolatilities == {None, Given(Arr(<<1>>)), Given(Arr(<<1, 2>>))}

InitData ==
    /\ pc = "get_data"
    /\ \E p \in DataInitialPrices, v \in DataVolatilities :
          args = [policy |-> "none", method |-> "generate",
                  initial_price |-> p, volatility |-> v]
    /\ stock_prices = Empty0
    /\ portfolio = Empty0
    /\ ledger = <<>>
    /\ last = NoCall
    /\ stock_number = 0
    /\ Idle /\ GenIdle /\ IndIdle
    /\ output = NoOutput

\* the locals of generate_stock_price(days, initial_price, volatility)
\* before its loop
GenLocals(days, initial_price, volatility) ==
    [days |-> days, initial_price |-> initial_price,
     volatility |-> volatility,
     stock_prices |-> [i \in 0 .. (days - 1) |->
                          IF i = 0 THEN initial_price ELSE F(0)],
     totalDrift |-> Zeros(days),
     day |-> 1,
     inc |-> Zeros(days),
     news |-> [i \in 0 .. (days - 1) |-> Zeros(1)]]

\* the message get_data prints when an argument of 'generate' is missing
Message(initial_price, volatility) ==
    IF initial_price.given
    THEN "Please specify the volatility for each stock."
    ELSE IF volatility.given
    THEN "Please specify the initial price for each stock."
    ELSE "Please specify the initial price and volatility for each stock."

\* the branches of get_data for method 'generate': with both arguments
\* sim_data = np.zeros([days, company_number]) and the loop starts, else a
\* message is printed and None returned
GetData ==
    /\ pc = "get_data"
    /\ args.method = "generate"
    /\ IF args.initial_price.given /\ args.volatility.given
       THEN /\ stock_prices' =
                   [d \in 0 .. (GetDataDays - 1) |->
                       [i \in DOMAIN args.initial_price.list |-> F(0)]]
            /\ pc' = "get_data_loop"
            /\ UNCHANGED output
       ELSE /\ output' = [printed |-> <<Message(args.initial_price,
                                                args.volatility)>>,
                          returned |-> "None"]
            /\ pc' = "returned"
            /\ UNCHANGED stock_prices
    /\ UNCHANGED <<args, portfolio, ledger, last, trade_day, stock_number,
                   cool_off, series, gen, ind>>

\* mutant: one volatility serves every stock
VolatilityOfFirst(volatility, i) == volatility[0]

\* volatility[i]
VolatilityOf(volatility, i) == volatility[i]

\* "for i in range(company_number)": the call of generate_stock_price(days,
\* initial_price[i], volatility[i]); volatility[i] raises IndexError when
\* the list is too short
GetDataGenerate ==
    /\ pc = "get_data_loop"
    /\ stock_number < Len0(args.initial_price.list)
    /\ IF stock_number \in DOMAIN args.volatility.list
       THEN /\ gen' = GenLocals(GetDataDays,
                                args.initial_price.list[stock_number],
                                VolatilityOf(args.volatility.list,
                                             stock_number))
            /\ pc' = "gen"
       ELSE /\ pc' = "error"
            /\ UNCHANGED gen
    /\ UNCHANGED <<args, stock_prices, portfolio, ledger, last, trade_day,
                   stock_number, cool_off, series, ind, output>>

\* sim_data[:,i] = the path generate_stock_price returned
GetDataStore ==
    /\ pc = "gen_done"
    /\ args.policy = "none" /\ "method" \in DOMAIN args
    /\ stock_prices' = [d \in DOMAIN stock_prices |->
                           [stock_prices[d] EXCEPT
                               ![stock_number] = gen.stock_prices[d]]]
    /\ stock_number' = stock_number + 1
    /\ pc' = "get_data_loop"
    /\ UNCHANGED <<args, portfolio, ledger, last, trade_day, cool_off,
                   series, gen, ind, output>>

\* return sim_data
GetDataReturn ==
    /\ pc = "get_data_loop"
    /\ stock_number >= Len0(args.initial_price.list)
    /\ output' = [printed |-> <<>>, returned |-> "sim_data"]
    /\ pc' = "returned"
    /\ UNCHANGED <<args, stock_prices, portfolio, ledger, last, trade_day,
                   stock_number, cool_off, series, gen, ind>>

NextData ==
    \/ GetData
    \/ GetDataGenerate
    \/ GenStep
    \/ GenReturn
    \/ GetDataStore
    \/ GetDataReturn

SpecData == InitData /\ [][NextData]_vars

---------------------------------------------------------------------------
(* indicators.py: moving_average and oscillator *)

\* np.max and np.min of a non-empty array; NaN if the array holds a NaN
RECURSIVE MaxUpTo(_, _)
MaxUpTo(a, k) ==
    IF k = 1 THEN a[0]
    ELSE LET r == MaxUpTo(a, k - 1)
         IN  IF IsNan(r) \/ IsNan(a[k - 1]) THEN NaN
             ELSE IF FGt(a[k - 1], r) THEN a[k - 1] ELSE r

RECURSIVE MinUpTo(_, _)
MinUpTo(a, k) ==
    IF k = 1 THEN a[0]
    ELSE LET r == MinUpTo(a, k - 1)
         IN  IF IsNan(r) \/ IsNan(a[k - 1]) THEN NaN
             ELSE IF FLt(a[k - 1], r) THEN a[k - 1] ELSE r

\* np.average(a, weights = weights): sum(a * weights) / sum(weights)
WeightedAverage(a, weights) ==
    FDiv(SumUpTo([i \in DOMAIN a |-> FMul(a[i], weights[i])], Len0(a)),
         SumUpTo(weights, Len0(weights)))

\* the value moving_average appends for day i
WindowAverage(stock_price, n, weights, i) ==
    IF weights = Empty0
    THEN Average(Slice0(stock_price, i - n + 1, i + 1))
    ELSE WeightedAverage(Slice0(stock_price, i - n + 1, i + 1), weights)

\* mutant: the loop starts one day late
FirstDayLate(n) == n

\* the first day of "for i in range(n-1, N)"
FirstDay(n) == n - 1

\* the loop of moving_average from day i on, ma being the values appended
\* so far: it stops at the first day whose value is NaN
RECURSIVE MovingAverageFrom(_, _, _, _, _)
MovingAverageFrom(stock_price, n, weights, i, ma) ==
    IF i >= Len0(stock_price) THEN ma
    ELSE IF ~IsNan(stock_price[i])
         THEN MovingAverageFrom(stock_price, n, weights, i + 1,
                  Append0(ma, WindowAverage(stock_price, n, weights, i)))
         ELSE ma

\* moving_average(stock_price, n, weights)
MovingAverageW(stock_price, n, weights) ==
    MovingAverageFrom(stock_price, n, weights, FirstDay(n), Empty0)

\* moving_average(stock_price, n = n)
MovingAverage(stock_price, n) == MovingAverageW(stock_price, n, Empty0)

\* mutant: today's distance to the highest price instead of to the lowest
StochasticInverted(stock_price, n, i) ==
    LET window == Slice0(stock_price, i - n + 1, i + 1)
        highest_price == MaxUpTo(window, n)
        lowest_price == MinUpTo(window, n)
        delta == FSub(highest_price, stock_price[i])
        delta_max == FSub(highest_price, lowest_price)
    IN  IF FEq(delta_max, F(0)) THEN NaN ELSE FDiv(delta, delta_max)

\* the value the stochastic oscillator appends for day i
Stochastic(stock_price, n, i) ==
    LET window == Slice0(stock_price, i - n + 1, i + 1)
        highest_price == MaxUpTo(window, n)
        lowest_price == MinUpTo(window, n)
        delta == FSub(stock_price[i], lowest_price)
        delta_max == FSub(highest_price, lowest_price)
    IN  IF FEq(delta_max, F(0)) THEN NaN ELSE FDiv(delta, delta_max)

\* a[k] with Python's negative indices
Index(a, k) == IF k < 0 THEN a[Len0(a) + k] ELSE a[k]

\* the RSI value computed from the array of differences
RSIOf(differences) ==
    LET pos == {j \in DOMAIN differences : FGt(differences[j], F(0))}
        neg == {j \in DOMAIN differences : FLt(differences[j], F(0))}
        Sum[k \in 0 .. Len0(differences)] ==
            \* <<sum of the positive, sum of the negative>> among the first k
            IF k = 0 THEN <<F(0), F(0)>>
            ELSE <<IF (k - 1) \in pos
                   THEN FAdd(Sum[k - 1][1], differences[k - 1])
                   ELSE Sum[k - 1][1],
                   IF (k - 1) \in neg
                   THEN FAdd(Sum[k - 1][2], differences[k - 1])
                   ELSE Sum[k - 1][2]>>
        total == Sum[Len0(differences)]
        postive_average == FDiv(total[1], F(Cardinality(pos)))
        negative_average == FDiv(total[2], F(Cardinality(neg)))
        RS == FDiv(postive_average, FAbs(negative_average))
    IN  IF pos # {} /\ neg # {}
        THEN FSub(F(1), FDiv(F(1), FAdd(F(1), RS)))
        ELSE IF pos = {} /\ neg # {} THEN F(0)
        ELSE IF pos # {} /\ neg = {} THEN F(1)
        ELSE NaN

\* mutant: the differences the comment above the code names, one day early:
\* stock_price[i-n+1] - stock_price[i-n] ... stock_price[i-1] - stock_price[i-2]
RSIShifted(stock_price, n, i) ==
    RSIOf([j \in 0 .. (n - 2) |->
              FSub(Index(stock_price, (i - n + 1) + j),
                   Index(stock_price, (i - n) + j))])

\* the value the RSI oscillator appends for day i
RSI(stock_price, n, i) ==
    RSIOf([j \in 0 .. (n - 2) |->
              FSub(stock_price[(i - n + 2) + j], stock_price[(i - n + 1) + j])])

\* the loop of oscillator from day i on
RECURSIVE OscillatorFrom(_, _, _, _, _)
OscillatorFrom(stock_price, n, osc_type, i, osc) ==
    IF i >= Len0(stock_price) THEN osc
    ELSE IF ~IsNan(stock_price[i])
         THEN OscillatorFrom(stock_price, n, osc_type, i + 1,
                  Append0(osc, IF osc_type = "stochastic"
                               THEN Stochastic(stock_price, n, i)
                               ELSE RSI(stock_price, n, i)))
         ELSE osc

\* oscillator(stock_price, n, osc_type)
Oscillator(stock_price, n, osc_type) ==
    IF osc_type \in {"stochastic", "RSI"}
    THEN OscillatorFrom(stock_price, n, osc_type, n - 1, Empty0)
    ELSE Empty0

---------------------------------------------------------------------------
(* The indicator engine applied to one price path *)

\* bounds: the longest price path and the longest window
MaxLen == 5
MaxWindow == 3

PriceLevels == {1, 2, 3}

\* the price paths of `len` days in which failure is permanent
Paths(len) ==
    { [i \in 0 .. (len - 1) |-> IF i < f THEN F(q[i]) ELSE NaN] :
          q \in [0 .. (len - 1) -> PriceLevels], f \in 0 .. len }

InitInd ==
    /\ pc = "ind"
    /\ \E len \in 0 .. MaxLen, n \in 1 .. MaxWindow :
       \E path \in Paths(len), t \in {"stochastic", "RSI"},
          w \in {Empty0, [i \in 0 .. (n - 1) |-> F(i + 1)]} :
          ind = [stock_price |-> path, n |-> n, osc_type |-> t,
                 weights |-> w, ma |-> Empty0, osc |-> Empty0]
    /\ args = NoArgs
    /\ stock_prices = Empty0
    /\ portfolio = Empty0
    /\ ledger = <<>>
    /\ last = NoCall
    /\ stock_number = 0
    /\ Idle /\ GenIdle
    /\ output = NoOutput

IndMovingAverage ==
    /\ pc = "ind"
    /\ ind' = [ind EXCEPT !.ma = MovingAverageW(ind.stock_price, ind.n, ind.weights)]
    /\ pc' = "ind_ma"
    /\ UNCHANGED <<args, stock_prices, portfolio, ledger, last, trade_day,
                   stock_number, cool_off, series, gen, output>>

IndOscillator ==
    /\ pc = "ind"
    /\ ind' = [ind EXCEPT !.osc = Oscillator(ind.stock_price, ind.n, ind.osc_type)]
    /\ pc' = "ind_osc"
    /\ UNCHANGED <<args, stock_prices, portfolio, ledger, last, trade_day,
                   stock_number, cool_off, series, gen, output>>

NextInd == IndMovingAverage \/ IndOscillator

SpecInd == InitInd /\ [][NextInd]_vars

---------------------------------------------------------------------------
(* strategy.py: the policies random, crossing_averages and momentum *)

\* bound: the number of days of the price matrix a policy runs on
StratDays == 7

\* the second column of a two-stock matrix: a company that fails on day 4
\* after falling, rising and falling, and one that rises and falls in turn
Companions ==
    { [d \in 0 .. (StratDays - 1) |->
          IF d >= 4 THEN NaN ELSE F(3 - (d % 2))],
      [d \in 0 .. (StratDays - 1) |-> F(2 + (d % 2))] }

\* the paths of the first column: failure is permanent and day 0 has a price
StratPaths == {p \in Paths(StratDays) : ~IsNan(p[0])}

Matrices ==
    { [d \in 0 .. (StratDays - 1) |-> Arr(<<p[d]>>)] : p \in StratPaths }
    \cup
    { [d \in 0 .. (StratDays - 1) |-> Arr(<<p[d], q[d]>>)] :
          p \in StratPaths, q \in Companions }

\* period_ave = 3, the window momentum smooths its oscillator with
period_ave == 3

\* the arguments of the runs: amount 5 and fees 1 for every policy,
\* period 3 or 4 (random), m 1 and n 2 (crossing_averages), and n 2,
\* thresholds 0.6 and 0.4 and a cool-off of 2 or 4 days (momentum)
PolicyArgs ==
    { [policy |-> "random", period |-> p, m |-> 1, n |-> 2, amount |-> F(5),
       fees |-> F(1), cool_off_period |-> 2, osc_type |-> "stochastic",
       T_over |-> <<3, 5>>, T_under |-> <<2, 5>>] : p \in {3, 4} }
    \cup
    { [policy |-> pol, period |-> 3, m |-> 1, n |-> 2, amount |-> F(5),
       fees |-> F(1), cool_off_period |-> c, osc_type |-> t,
       T_over |-> <<3, 5>>, T_under |-> <<2, 5>>] :
          pol \in {"crossing"}, c \in {2}, t \in {"stochastic"} }
    \cup
    { [policy |-> "momentum", period |-> 3, m |-> 1, n |-> 2, amount |-> F(5),
       fees |-> F(1), cool_off_period |-> ct[1], osc_type |-> ct[2],
       T_over |-> <<3, 5>>, T_under |-> <<2, 5>>] :
          ct \in {<<2, "stochastic">>, <<4, "stochastic">>, <<2, "RSI">>} }

\* the runs explored: random with period 3 trades one stock, every other
\* choice of arguments runs on every matrix
Explored(a, matrix) ==
    (a.policy = "random" /\ a.period = 3) => Len0(matrix[0]) = 1

Init ==
    /\ pc = "create"
    /\ stock_prices \in Matrices
    /\ \E a \in PolicyArgs :
          /\ Explored(a, stock_prices)
          \* available_amounts = [amount] * N
          /\ args = [policy |-> a.policy, period |-> a.period, m |-> a.m,
                  n |-> a.n, amount |-> a.amount, fees |-> a.fees,
                  cool_off_period |-> a.cool_off_period,
                  osc_type |-> a.osc_type, T_over |-> a.T_over,
                  T_under |-> a.T_under,
                  available_amounts |-> [i \in 0 .. (N - 1) |-> a.amount]]
    /\ portfolio = [i \in 0 .. (N - 1) |-> 0]
    /\ ledger = <<>>
    /\ last = NoCall
    /\ stock_number = 0
    /\ Idle /\ GenIdle /\ IndIdle
    /\ output = NoOutput

\* stock_prices[:, stock]
Column(stock) == [d \in 0 .. (Days - 1) |-> stock_prices[d][stock]]

\* mutant: the outer loop moves on by one day, whatever its step
EndOfIterationNextDay(step, raised, again) ==
    IF raised
    THEN pc' = "error" /\ UNCHANGED <<trade_day, stock_number>>
    ELSE IF stock_number + 1 < N
    THEN pc' = "loop" /\ stock_number' = stock_number + 1 /\ UNCHANGED trade_day
    ELSE IF trade_day + 1 < Days
    THEN pc' = again /\ stock_number' = 0 /\ trade_day' = trade_day + 1
    ELSE pc' = "flush" /\ stock_number' = 0 /\ UNCHANGED trade_day

\* the end of one iteration of the inner loop "for stock_number in range(N)"
\* of "for trade_day in range(start, days, step)"; `raised` when the
\* iteration ended in an exception, `again` the position of the next day
EndOfIteration(step, raised, again) ==
    IF raised
    THEN pc' = "error" /\ UNCHANGED <<trade_day, stock_number>>
    ELSE IF stock_number + 1 < N
    THEN pc' = "loop" /\ stock_number' = stock_number + 1 /\ UNCHANGED trade_day
    ELSE IF trade_day + step < Days
    THEN pc' = again /\ stock_number' = 0 /\ trade_day' = trade_day + step
    ELSE pc' = "flush" /\ stock_number' = 0 /\ UNCHANGED trade_day

\* create_portfolio has returned; "for trade_day in range(period, days, period)"
RandomSetup ==
    /\ pc = "create"
    /\ args.policy = "random"
    /\ stock_number = N
    /\ trade_day' = args.period
    /\ stock_number' = 0
    /\ pc' = IF args.period < Days THEN "loop" ELSE "flush"
    /\ UNCHANGED <<args, stock_prices, portfolio, ledger, last, cool_off,
                   series, gen, ind, output>>

\* one iteration of random's loop over the stocks on a trade day
RandomStep ==
    /\ pc = "loop"
    /\ args.policy = "random"
    /\ \E decision \in {-1, 0, 1} :
          LET price == stock_prices[trade_day][stock_number]
          IN  IF decision = 1 /\ ~IsNan(price)
              THEN Buy(trade_day, stock_number, args.amount, args.fees)
              ELSE IF decision = -1 /\ ~IsNan(price) /\ portfolio[stock_number] # 0
              THEN Sell(trade_day, stock_number, args.fees)
              ELSE UNCHANGED <<portfolio, ledger, last>>
    /\ EndOfIteration(args.period, FALSE, "loop")
    /\ UNCHANGED <<args, stock_prices, cool_off, series, gen, ind, output>>

\* create_portfolio has returned; SMA and FMA are computed for every stock;
\* "for trade_day in range(n+1, days)"
CrossingSetup ==
    /\ pc = "create"
    /\ args.policy = "crossing"
    /\ stock_number = N
    /\ series' = [SMA |-> [s \in 0 .. (N - 1) |-> MovingAverage(Column(s), args.n)],
                  FMA |-> [s \in 0 .. (N - 1) |-> MovingAverage(Column(s), args.m)]]
    /\ trade_day' = args.n + 1
    /\ stock_number' = 0
    /\ pc' = IF args.n + 1 < Days THEN "loop" ELSE "flush"
    /\ UNCHANGED <<args, stock_prices, portfolio, ledger, last, cool_off,
                   gen, ind, output>>

\* "if trade_day - n > len(SMA[stock_number]) - 1: continue"
CrossingSkips(SMA, day, n) == day - n > Len0(SMA) - 1

\* the entries of FMA and SMA the code reads as today's and yesterday's
FastToday(day, m) == day - m
SlowToday(day, n) == day - n

\* FMA crosses SMA from below
CrossFromBelow(FMA, SMA, day, m, n) ==
    /\ FGe(FMA[FastToday(day, m)], SMA[SlowToday(day, n)])
    /\ FLt(FMA[FastToday(day, m) - 1], SMA[SlowToday(day, n) - 1])

\* FMA crosses SMA from above
CrossFromAbove(FMA, SMA, day, m, n) ==
    /\ FLe(FMA[FastToday(day, m)], SMA[SlowToday(day, n)])
    /\ FGt(FMA[FastToday(day, m) - 1], SMA[SlowToday(day, n) - 1])

\* an index the crossing test reads lies outside its series (IndexError)
CrossingIndexError(FMA, SMA, day, m, n) ==
    \/ {FastToday(day, m), FastToday(day, m) - 1} \cap DOMAIN FMA
           # {FastToday(day, m), FastToday(day, m) - 1}
    \/ {SlowToday(day, n), SlowToday(day, n) - 1} \cap DOMAIN SMA
           # {SlowToday(day, n), SlowToday(day, n) - 1}

\* one iteration of crossing_averages' loop over the stocks on a trade day
CrossingStep ==
    /\ pc = "loop"
    /\ args.policy = "crossing"
    /\ LET SMA == series.SMA[stock_number]
           FMA == series.FMA[stock_number]
       IN  IF CrossingSkips(SMA, trade_day, args.n)
           THEN /\ UNCHANGED <<portfolio, ledger, last>>
                /\ EndOfIteration(1, FALSE, "loop")
           ELSE IF CrossingIndexError(FMA, SMA, trade_day, args.m, args.n)
           THEN /\ UNCHANGED <<portfolio, ledger, last>>
                /\ EndOfIteration(1, TRUE, "loop")
           ELSE IF CrossFromBelow(FMA, SMA, trade_day, args.m, args.n)
           THEN /\ Buy(trade_day, stock_number, args.amount, args.fees)
                /\ EndOfIteration(1, BuyRaises(trade_day, stock_number), "loop")
           ELSE IF /\ CrossFromAbove(FMA, SMA, trade_day, args.m, args.n)
                   /\ portfolio[stock_number] # 0
           THEN /\ Sell(trade_day, stock_number, args.fees)
                /\ EndOfIteration(1, FALSE, "loop")
           ELSE /\ UNCHANGED <<portfolio, ledger, last>>
                /\ EndOfIteration(1, FALSE, "loop")
    /\ UNCHANGED <<args, stock_prices, cool_off, series, gen, ind, output>>

\* k = n + period_ave - 2, the first trade day of momentum
StartDay(n) == n + period_ave - 2

\* create_portfolio has returned; the smoothed oscillator is computed for
\* every stock; cool_off = [cool_off_period] * N;
\* "for trade_day in range(k, days)"
MomentumSetup ==
    /\ pc = "create"
    /\ args.policy = "momentum"
    /\ stock_number = N
    /\ series' = [osc |-> [s \in 0 .. (N - 1) |->
                     MovingAverage(Oscillator(Column(s), args.n, args.osc_type),
                                   period_ave)]]
    /\ cool_off' = [s \in 0 .. (N - 1) |-> args.cool_off_period]
    /\ trade_day' = StartDay(args.n)
    /\ stock_number' = 0
    /\ pc' = IF StartDay(args.n) < Days THEN "tick" ELSE "flush"
    /\ UNCHANGED <<args, stock_prices, portfolio, ledger, last, gen, ind, output>>

\* mutant: the counter of a stock that has failed stands still
MomentumTickWhereTraded ==
    /\ pc = "tick"
    /\ cool_off' = [s \in DOMAIN cool_off |->
                       IF /\ cool_off[s] < args.cool_off_period
                          /\ ~IsNan(stock_prices[trade_day][s])
                       THEN cool_off[s] + 1 ELSE cool_off[s]]
    /\ pc' = "loop"
    /\ UNCHANGED <<args, stock_prices, portfolio, ledger, last, trade_day,
                   stock_number, series, gen, ind, output>>

\* the first loop of a trade day: every counter below cool_off_period grows
MomentumTick ==
    /\ pc = "tick"
    /\ cool_off' = [s \in DOMAIN cool_off |->
                       IF cool_off[s] < args.cool_off_period
                       THEN cool_off[s] + 1 ELSE cool_off[s]]
    /\ pc' = "loop"
    /\ UNCHANGED <<args, stock_prices, portfolio, ledger, last, trade_day,
                   stock_number, series, gen, ind, output>>

\* mutant: a stock whose series ends before the last day is never traded
MomentumSkipsIfItEnds(osc, day, k) ==
    \/ day - k > Len0(osc) - 1
    \/ Len0(osc) < Days - k

\* "if trade_day - k > len(osc[stock_number]) - 1: continue"
MomentumSkips(osc, day, k) == day - k > Len0(osc) - 1

\* mutant: a buy does not wait for the counter
AlwaysReady(counter, cool_off_period) == TRUE

\* "cool_off[stock_number] == cool_off_period"
CoolOffReady(counter, cool_off_period) == counter = cool_off_period

\* one iteration of momentum's second loop over the stocks on a trade day
MomentumStep ==
    /\ pc = "loop"
    /\ args.policy = "momentum"
    /\ LET osc == series.osc[stock_number]
           k == StartDay(args.n)
       IN  IF MomentumSkips(osc, trade_day, k)
           THEN /\ UNCHANGED <<portfolio, ledger, last, cool_off>>
                /\ EndOfIteration(1, FALSE, "tick")
           ELSE IF /\ FGt(osc[trade_day - k], args.T_over)
                   /\ portfolio[stock_number] # 0
           THEN /\ Sell(trade_day, stock_number, args.fees)
                /\ UNCHANGED cool_off
                /\ EndOfIteration(1, FALSE, "tick")
           ELSE IF /\ FLt(osc[trade_day - k], args.T_under)
                   /\ CoolOffReady(cool_off[stock_number], args.cool_off_period)
           THEN /\ Buy(trade_day, stock_number, args.amount, args.fees)
                /\ cool_off' = IF BuyRaises(trade_day, stock_number)
                               THEN cool_off
                               ELSE [cool_off EXCEPT ![stock_number] = 0]
                /\ EndOfIteration(1, BuyRaises(trade_day, stock_number), "tick")
           ELSE /\ UNCHANGED <<portfolio, ledger, last, cool_off>>
                /\ EndOfIteration(1, FALSE, "tick")
    /\ UNCHANGED <<args, stock_prices, series, gen, ind, output>>

\* mutant: the last loop misses the last stock
FlushCountShort == N - 1

\* the stocks the last loop of a policy visits: "for stock_number in range(N)"
FlushCount == N

\* mutant: the last loop sells every stock that has a price, held or not
FlushStepUnguarded ==
    /\ pc = "flush"
    /\ stock_number < FlushCount
    /\ IF ~IsNan(stock_prices[Days - 1][stock_number])
       THEN Sell(Days - 1, stock_number, args.fees)
       ELSE UNCHANGED <<portfolio, ledger, last>>
    /\ stock_number' = stock_number + 1
    /\ UNCHANGED <<pc, args, stock_prices, trade_day, cool_off, series, gen,
                   ind, output>>

\* one iteration of the last loop of a policy: on day days-1 sell what is
\* held of a stock that has a price
FlushStep ==
    /\ pc = "flush"
    /\ stock_number < FlushCount
    /\ IF /\ ~IsNan(stock_prices[Days - 1][stock_number])
          /\ portfolio[stock_number] # 0
       THEN Sell(Days - 1, stock_number, args.fees)
       ELSE UNCHANGED <<portfolio, ledger, last>>
    /\ stock_number' = stock_number + 1
    /\ UNCHANGED <<pc, args, stock_prices, trade_day, cool_off, series, gen, ind, output>>

\* return None
Finish ==
    /\ pc = "flush"
    /\ stock_number >= FlushCount
    /\ pc' = "done"
    /\ UNCHANGED <<args, stock_prices, portfolio, ledger, last, trade_day,
                   stock_number, cool_off, series, gen, ind, output>>

Next ==
    \/ CreatePortfolioStep
    \/ RandomSetup
    \/ RandomStep
    \/ CrossingSetup
    \/ CrossingStep
    \/ MomentumSetup
    \/ MomentumTick
    \/ MomentumStep
    \/ FlushStep
    \/ Finish

Spec == Init /\ [][Next]_vars

---------------------------------------------------------------------------
(* crossing_averages and momentum alone, on shorter price matrices *)

\* bound: the number of days of these price matrices
LookDays == 6

\* a second stock that fails on day 4
LookCompanion ==
    [d \in 0 .. (LookDays - 1) |-> IF d >= 4 THEN NaN ELSE F(3 - (d % 2))]

\* one stock on every path whose day 0 has a price, alone and beside the
\* second stock
LookMatrices ==
    { [d \in 0 .. (LookDays - 1) |-> Arr(<<p[d]>>)] :
          p \in {q \in Paths(LookDays) : ~IsNan(q[0])} }
    \cup
    { [d \in 0 .. (LookDays - 1) |-> Arr(<<p[d], LookCompanion[d]>>)] :
          p \in {q \in Paths(LookDays) : ~IsNan(q[0])} }

InitLook ==
    /\ pc = "create"
    /\ stock_prices \in LookMatrices
    /\ \E a \in PolicyArgs :
          /\ a.policy \in {"crossing", "momentum"}
          /\ args = [policy |-> a.policy, period |-> a.period, m |-> a.m,
                     n |-> a.n, amount |-> a.amount, fees |-> a.fees,
                     cool_off_period |-> a.cool_off_period,
                     osc_type |-> a.osc_type, T_over |-> a.T_over,
                     T_under |-> a.T_under,
                     available_amounts |-> [i \in 0 .. (N - 1) |-> a.amount]]
    /\ portfolio = [i \in 0 .. (N - 1) |-> 0]
    /\ ledger = <<>>
    /\ last = NoCall
    /\ stock_number = 0
    /\ Idle /\ GenIdle /\ IndIdle
    /\ output = NoOutput

NextLook ==
    \/ CreatePortfolioStep
    \/ CrossingSetup
    \/ CrossingStep
    \/ MomentumSetup
    \/ MomentumTick
    \/ MomentumStep
    \/ FlushStep
    \/ Finish

SpecLook == InitLook /\ [][NextLook]_vars

---------------------------------------------------------------------------
(* Claims about process.py *)

\* C1 (as claimed): every completed Buy call buys floor((capital - fees) /
\* price) shares and spends at most the capital offered to it, fees
\* included: shares * price + fees <= capital.
C1_CapitalConstraint ==
    (last.op = "buy") =>
        LET e == ledger[Len(ledger)]
            shares == portfolio[last.stock] - last.before[last.stock]
        IN  /\ e.shares = shares
            /\ shares = Floor(FDiv(FSub(last.capital, last.fees), e.price))
            /\ FLe(FAdd(FMul(F(shares), e.price), last.fees), last.capital)

\* C13 (as claimed): after any sequence of create_portfolio, buy and sell
\* calls, with positive prices, any capital and fees >= 0, every entry of
\* the portfolio is a non-negative integer.
C13_SharesNonNegative ==
    \A s \in DOMAIN portfolio : portfolio[s] \in Nat

\* a step of a Sell call: sell is the most recent call after the step and
\* the step wrote to the ledger
SellStep == last'.op = "sell" /\ ledger' # ledger

\* C14: Sell(day, stock, ...) sets portfolio[stock] to 0, appends exactly
\* one sell entry whose share count is portfolio[stock] immediately before
\* the call (zero for a zero holding) and leaves the holdings of all other
\* stocks unchanged.
C14_SellClearsPosition ==
    [][SellStep =>
          LET stock == last'.stock
          IN  /\ portfolio'[stock] = 0
              /\ Len(ledger') = Len(ledger) + 1
              /\ SubSeq(ledger', 1, Len(ledger)) = ledger
              /\ ledger'[Len(ledger')].type = "sell"
              /\ ledger'[Len(ledger')].stock = stock
              /\ ledger'[Len(ledger')].date = last'.date
              /\ ledger'[Len(ledger')].shares = portfolio[stock]
              /\ \A s \in DOMAIN portfolio :
                     s # stock => portfolio'[s] = portfolio[s]]_vars

\* C14 witness: a stock was sold twice in a row, first a holding of at
\* least one share and then the zero holding left, while the other stock
\* kept its shares
C14_Witness ==
    /\ Len(ledger) = N + 2
    /\ LET first == ledger[N + 1]
           second == ledger[N + 2]
       IN  /\ first.type = "sell" /\ second.type = "sell"
           /\ first.stock = second.stock
           /\ first.shares > 0 /\ second.shares = 0
           /\ \E s \in DOMAIN portfolio : portfolio[s] > 0

\* the number of hundredths a printed amount reads as
Reads(t) == IF t.minus THEN -(t.whole * 100 + t.cents)
            ELSE t.whole * 100 + t.cents

\* the printed amount t is the amount x to two decimals: "nan" for
\* not-a-number, else two digits of cents and within half a hundredth of x
Shows(t, x) ==
    IF IsNan(x) THEN t.nan
    ELSE /\ ~t.nan
         /\ t.whole >= 0 /\ t.cents \in 0 .. 99
         /\ 2 * Abs(100 * x[1] - Reads(t) * x[2]) <= x[2]

\* the cash flow of a transaction: -(shares*price + fees) for a buy and
\* shares*price - fees for a sell
CashFlow(type, shares, price, fees) ==
    IF type = "buy" THEN FSub(FNeg(FMul(F(shares), price)), fees)
    ELSE FAdd(FMul(F(shares), price), FNeg(fees))

Amount(minus, whole, cents) ==
    [nan |-> FALSE, minus |-> minus, whole |-> whole, cents |-> cents]

\* C11: log_transaction(type, day, stock, shares, price, fees, ledger)
\* writes one line with the fields type, day, stock, shares, unit price and
\* cash flow in that order, the cash flow being -(shares*price + fees) for a
\* buy and shares*price - fees for a sell; ('buy', 5, 2, 10, 100, 50) gives
\* buy,5,2,10,100.00,-1050.00 and ('sell', 8, 1, 10, 100, 20) gives
\* sell,8,1,10,100.00,980.00.
C11_LedgerEntryContent ==
    (pc = "logged") =>
        /\ Len(ledger) = 1
        /\ LET text == ledger[1].text
           IN  /\ Len(text) = 6
               /\ text[1] = args.transaction_type
               /\ text[2] = args.date
               /\ text[3] = args.stock
               /\ text[4] = args.number_of_shares
               /\ Shows(text[5], args.price)
               /\ Shows(text[6], CashFlow(args.transaction_type,
                                          args.number_of_shares,
                                          args.price, args.fees))
               /\ (/\ args.transaction_type = "buy" /\ args.date = 5
                   /\ args.stock = 2 /\ args.number_of_shares = 10
                   /\ args.price = F(100) /\ args.fees = F(50))
                  => text = <<"buy", 5, 2, 10, Amount(FALSE, 100, 0),
                              Amount(TRUE, 1050, 0)>>
               /\ (/\ args.transaction_type = "sell" /\ args.date = 8
                   /\ args.stock = 1 /\ args.number_of_shares = 10
                   /\ args.price = F(100) /\ args.fees = F(20))
                  => text = <<"sell", 8, 1, 10, Amount(FALSE, 100, 0),
                              Amount(FALSE, 980, 0)>>

\* C11 witness: the line of the sale of 10 shares of stock 1 on day 8 at
\* price 100 with fees 20 has been written
C11_Witness ==
    /\ pc = "logged"
    /\ args.transaction_type = "sell" /\ args.date = 8 /\ args.stock = 1
    /\ args.number_of_shares = 10 /\ args.price = F(100)
    /\ args.fees = F(20)
    /\ Len(ledger) = 1

---------------------------------------------------------------------------
(* Claims about strategy.py *)

Stocks == 0 .. (N - 1)

Entries == 1 .. Len(ledger)

\* the ledger holds an entry of this type for this stock on this day
Traded(type, day, stock) ==
    \E i \in Entries : /\ ledger[i].type = type
                       /\ ledger[i].date = day
                       /\ ledger[i].stock = stock

\* the decision loop of the running policy is past (day, stock)
Decided(day, stock) ==
    \/ pc \in {"flush", "done"}
    \/ /\ pc \in {"loop", "tick", "error"}
       /\ \/ day < trade_day
          \/ day = trade_day /\ stock < stock_number /\ pc # "tick"

\* C2 (as claimed): in every run of the three policies no Buy and no Sell
\* is executed for a stock on a day whose price is the failure marker: no
\* ledger entry carries a failure-marker price and no Buy is attempted at
\* one.
C2_FailureSemantics ==
    /\ \A i \in Entries : ~IsNan(stock_prices[ledger[i].date][ledger[i].stock])
    /\ last.op # "raise"

\* the m-day and n-day moving averages of the window ending at day x: the
\* entry of the series whose index 0 is day window-1
HasAverage(ma, window, x) == (x - (window - 1)) \in DOMAIN ma
AverageAt(ma, window, x) == ma[x - (window - 1)]

\* fast(d) >= slow(d) and fast(d-1) < slow(d-1)
CrossesFromBelowOn(stock, d) ==
    LET FMA == series.FMA[stock]
        SMA == series.SMA[stock]
    IN  /\ HasAverage(FMA, args.m, d) /\ HasAverage(SMA, args.n, d)
        /\ HasAverage(FMA, args.m, d - 1) /\ HasAverage(SMA, args.n, d - 1)
        /\ FGe(AverageAt(FMA, args.m, d), AverageAt(SMA, args.n, d))
        /\ FLt(AverageAt(FMA, args.m, d - 1), AverageAt(SMA, args.n, d - 1))

\* C3 (as claimed): in crossing_averages, for every trade day d >= n+1 and
\* every stock the index check does not skip, a Buy is executed on day d if
\* and only if fast(d) >= slow(d) and fast(d-1) < slow(d-1).
C3_CrossingDetection ==
    (args.policy = "crossing" /\ pc \in {"loop", "flush", "done"}) =>
        \A d \in (args.n + 1) .. (Days - 1) : \A stock \in Stocks :
            (Decided(d, stock) /\ ~CrossingSkips(series.SMA[stock], d, args.n)) =>
                (Traded("buy", d, stock) <=> CrossesFromBelowOn(stock, d))

\* no sell entry for the stock lies between entries i and j
NoSellBetween(i, j) ==
    \A h \in (i + 1) .. (j - 1) :
        ~(ledger[h].type = "sell" /\ ledger[h].stock = ledger[i].stock)

\* entries i < j are two buys of the same stock
TwoBuys(i, j) ==
    /\ i < j
    /\ ledger[i].type = "buy" /\ ledger[j].type = "buy"
    /\ ledger[i].stock = ledger[j].stock

\* C4 (as claimed): in the ledger of a momentum run, the day-0 buys of
\* create_portfolio included, two buy entries of a stock with no sell entry
\* of that stock between them are at least cool_off_period days apart.
C4_CoolOffFromDayZero ==
    (args.policy = "momentum") =>
        \A i \in Entries : \A j \in Entries :
            (TwoBuys(i, j) /\ NoSellBetween(i, j)) =>
                ledger[j].date - ledger[i].date >= args.cool_off_period

\* C4 (amended): in the ledger of a momentum run, two buy entries of a
\* stock that the decision loop made (the entries after the N day-0 buys of
\* create_portfolio) with no sell entry of that stock between them are at
\* least cool_off_period days apart.
C4_CoolOff ==
    (args.policy = "momentum") =>
        \A i \in Entries : \A j \in Entries :
            (i > N /\ TwoBuys(i, j) /\ NoSellBetween(i, j)) =>
                ledger[j].date - ledger[i].date >= args.cool_off_period

\* a momentum run whose decision loop bought a stock twice with no sell
\* between, and not on the day between
C4_Witness ==
    /\ args.policy = "momentum"
    /\ \E i \in Entries : \E j \in Entries :
          /\ i > N /\ TwoBuys(i, j) /\ NoSellBetween(i, j)
          /\ ledger[j].date = ledger[i].date + args.cool_off_period

\* C5: when a policy has finished, every stock whose price on the last day
\* is not the failure marker is held with 0 shares.
C5_TerminalFlush ==
    (pc = "done") =>
        \A stock \in Stocks :
            ~IsNan(stock_prices[Days - 1][stock]) => portfolio[stock] = 0

\* a finished run of two stocks that bought on the last day itself and
\* sold those shares in the last loop, while a failed stock keeps its shares
C5_Witness ==
    /\ pc = "done"
    /\ N = 2
    /\ \E i \in Entries : \E j \in Entries :
          /\ i < j
          /\ ledger[i].type = "buy" /\ ledger[i].date = Days - 1
          /\ ledger[i].shares > 0
          /\ ledger[j].type = "sell" /\ ledger[j].date = Days - 1
          /\ ledger[j].stock = ledger[i].stock
          /\ portfolio[ledger[i].stock] = 0
    /\ \E stock \in Stocks :
          IsNan(stock_prices[Days - 1][stock]) /\ portfolio[stock] > 0

\* the oscillator of a stock before smoothing
RawOscillator(stock) == Oscillator(Column(stock), args.n, args.osc_type)

\* the three oscillator values of days d-2, d-1 and d are all defined
SmoothedIsDefined(stock, d) ==
    LET raw == RawOscillator(stock)
        j == d - (args.n - 1)
    IN  /\ {j - 2, j - 1, j} \subseteq DOMAIN raw
        /\ ~IsNan(raw[j - 2]) /\ ~IsNan(raw[j - 1]) /\ ~IsNan(raw[j])

\* C6 (as claimed): in momentum an undefined oscillator value of a stock
\* that has not failed keeps the stock from trading only on the days whose
\* smoothed value depends on it: on a trade day whose three oscillator
\* values are defined the stock is not skipped, and is compared with the
\* thresholds by their mean.
C6_UndefinedIsNoSignal ==
    (args.policy = "momentum" /\ pc = "loop") =>
        LET raw == RawOscillator(stock_number)
            j == trade_day - (args.n - 1)
            k == StartDay(args.n)
        IN  (/\ ~IsNan(stock_prices[trade_day][stock_number])
             /\ SmoothedIsDefined(stock_number, trade_day)) =>
                /\ ~MomentumSkips(series.osc[stock_number], trade_day, k)
                /\ series.osc[stock_number][trade_day - k] =
                       Average(Slice0(raw, j - 2, j + 1))

BeforeFlush ==
    \/ pc \in {"loop", "tick", "error"}
    \/ pc = "flush" /\ stock_number = 0

\* the entries written by the decision loop
LoopEntries == {i \in Entries : i > N}

\* at most one entry of the decision loop for a (day, stock)
OneOperationADay ==
    \A i \in LoopEntries : \A j \in LoopEntries :
        (i # j) => ~(/\ ledger[i].date = ledger[j].date
                     /\ ledger[i].stock = ledger[j].stock)

\* fast(d) <= slow(d) and fast(d-1) > slow(d-1)
CrossesFromAboveOn(stock, d) ==
    LET FMA == series.FMA[stock]
        SMA == series.SMA[stock]
    IN  /\ HasAverage(FMA, args.m, d) /\ HasAverage(SMA, args.n, d)
        /\ HasAverage(FMA, args.m, d - 1) /\ HasAverage(SMA, args.n, d - 1)
        /\ FLe(AverageAt(FMA, args.m, d), AverageAt(SMA, args.n, d))
        /\ FGt(AverageAt(FMA, args.m, d - 1), AverageAt(SMA, args.n, d - 1))

\* every sale of the decision loop sold a non-zero holding
SellsOnlyHoldings ==
    \A i \in LoopEntries : (ledger[i].type = "sell") => ledger[i].shares # 0

\* C16 (as claimed): in the decision loops of crossing_averages and
\* momentum at most one of Buy and Sell is executed for a (day, stock); in
\* crossing_averages a Sell is executed only on a day d with fast(d) <=
\* slow(d) and fast(d-1) > slow(d-1), and only for a non-zero holding.
C16_SignalExclusivity ==
    (args.policy \in {"crossing", "momentum"} /\ BeforeFlush) =>
        /\ OneOperationADay
        /\ (args.policy = "crossing") =>
               /\ SellsOnlyHoldings
               /\ \A i \in LoopEntries :
                      (ledger[i].type = "sell") =>
                          CrossesFromAboveOn(ledger[i].stock, ledger[i].date)

\* the step wrote an entry of this type to the ledger
Writes(type) ==
    /\ Len(ledger') = Len(ledger) + 1
    /\ ledger'[Len(ledger')].type = type

\* C17: in momentum every per-stock counter starts at cool_off_period and
\* stays in 0 .. cool_off_period; at the start of each trade day every
\* counter below cool_off_period grows by exactly 1, also for skipped or
\* failed stocks; a Buy of the policy executes only when the counter of its
\* stock equals cool_off_period and sets it to 0; a Sell does not change
\* any counter; nothing else changes a counter.
C17_CoolOffCounter ==
    [][(args.policy = "momentum") =>
          /\ \A s \in DOMAIN cool_off' :
                 cool_off'[s] \in 0 .. args.cool_off_period
          /\ (pc = "create" /\ pc' # "create" /\ pc' # "error") =>
                 cool_off' = [s \in Stocks |-> args.cool_off_period]
          /\ (pc = "tick") =>
                 /\ DOMAIN cool_off' = Stocks
                 /\ \A s \in Stocks :
                        cool_off'[s] =
                            IF cool_off[s] < args.cool_off_period
                            THEN cool_off[s] + 1 ELSE cool_off[s]
          /\ (pc = "loop" /\ Writes("buy")) =>
                 /\ cool_off[stock_number] = args.cool_off_period
                 /\ cool_off' = [cool_off EXCEPT ![stock_number] = 0]
          /\ (pc = "loop" /\ ~Writes("buy")) => cool_off' = cool_off
          /\ (pc \in {"flush", "done", "error"}) => cool_off' = cool_off
      ]_vars

\* C17 witness: a momentum run in which a stock was bought by the
\* decision loop and sold again before its counter was back at
\* cool_off_period, and in which the counter of a failed stock stands
\* between 0 and cool_off_period on a trade day
C17_Witness ==
    /\ args.policy = "momentum"
    /\ pc = "loop"
    /\ \E i \in LoopEntries : \E j \in LoopEntries :
           /\ i < j
           /\ ledger[i].type = "buy" /\ ledger[j].type = "sell"
           /\ ledger[i].stock = ledger[j].stock
           /\ ledger[j].date - ledger[i].date < args.cool_off_period
    /\ \E s \in Stocks :
           /\ IsNan(stock_prices[trade_day][s])
           /\ cool_off[s] > 1
           /\ cool_off[s] < args.cool_off_period

\* day is one of the days p, 2p, 3p, ... below D
DecisionDay(day) ==
    /\ day > 0
    /\ day < Days
    /\ day % args.period = 0

\* C19: a random run over D days with period p draws its decisions only on
\* the days p, 2p, 3p, ... below D, on each of them once per stock, in the
\* order of the days and of the stocks; so every ledger entry is a day-0
\* buy of create_portfolio, a buy or sell on a positive multiple of p, or a
\* sell on day D-1 of the last loop.
C19_RandomSchedule ==
    [][(args.policy = "random") =>
          \* the first decision is that of stock 0 on day p, if p < D
          /\ (pc = "create" /\ pc' # "create" /\ pc' # "error") =>
                 IF args.period < Days
                 THEN pc' = "loop" /\ trade_day' = args.period
                      /\ stock_number' = 0
                 ELSE pc' = "flush"
          \* a decision is drawn on a decision day, and the next one is that
          \* of the next stock, or of stock 0 on the next decision day
          /\ (pc = "loop") =>
                 /\ DecisionDay(trade_day)
                 /\ stock_number \in Stocks
                 /\ IF stock_number + 1 < N
                    THEN /\ pc' = "loop" /\ trade_day' = trade_day
                         /\ stock_number' = stock_number + 1
                    ELSE IF DecisionDay(trade_day + args.period)
                    THEN /\ pc' = "loop"
                         /\ trade_day' = trade_day + args.period
                         /\ stock_number' = 0
                    ELSE pc' = "flush"
          \* no entry is written outside create_portfolio, a decision and
          \* the last loop
          /\ (pc \notin {"create", "loop", "flush"}) => ledger' = ledger
          /\ \A i \in 1 .. Len(ledger') :
                 LET e == ledger'[i]
                 IN  \/ i <= N /\ e.type = "buy" /\ e.date = 0
                     \/ i > N /\ DecisionDay(e.date)
                     \/ i > N /\ e.type = "sell" /\ e.date = Days - 1
      ]_vars

\* C19 witness: a finished random run of period 4 on two stocks that
\* bought stock 0 and sold stock 1 on day 4 and whose last loop sold stock
\* 0 on day D-1, which is no multiple of 4
C19_Witness ==
    /\ args.policy = "random"
    /\ pc = "done"
    /\ args.period = 4
    /\ (Days - 1) % 4 # 0
    /\ Traded("buy", 4, 0) /\ Traded("sell", Days - 1, 0)
    /\ Traded("sell", 4, 1)

\* the step appended exactly one entry and kept every entry there was
AppendsOne ==
    /\ Len(ledger') = Len(ledger) + 1
    /\ SubSeq(ledger', 1, Len(ledger)) = ledger

\* the step completed a call of buy or sell: the holdings changed, or the
\* record of the most recent call did and shows a completed call
CallCompleted ==
    \/ portfolio' # portfolio
    \/ last' # last /\ last'.op \in {"buy", "sell"}

\* C20: in a policy run every completed Buy and every Sell, the N day-0
\* buys of create_portfolio for the stocks 0 .. N-1 in this order included,
\* appends exactly one entry at the end of the ledger and no step changes
\* or removes an entry, so that the ledger is in the order of execution and
\* the days of its entries never decrease.
C20_AppendOnlyLedger ==
    [][/\ ledger' = ledger \/ AppendsOne
       /\ CallCompleted =>
              /\ AppendsOne
              /\ LET e == ledger'[Len(ledger')]
                 IN  /\ e.type = last'.op
                     /\ e.date = last'.date
                     /\ e.stock = last'.stock
                     /\ e.shares = IF e.type = "buy"
                                   THEN portfolio'[e.stock] - portfolio[e.stock]
                                   ELSE portfolio[e.stock]
       /\ (pc = "create" /\ AppendsOne) =>
              LET e == ledger'[Len(ledger')]
              IN  /\ e.type = "buy" /\ e.date = 0
                  /\ e.stock = Len(ledger)
       /\ (pc' # "create" /\ pc' # "error") => Len(ledger') >= N
       /\ \A i \in 1 .. Len(ledger') : \A j \in 1 .. Len(ledger') :
              (i < j) => ledger'[i].date <= ledger'[j].date
      ]_vars

\* C20 witness: a finished run on two stocks whose ledger holds, after the
\* two day-0 buys for stock 0 and stock 1, a buy and a sale of the decision
\* loop and then a sale of the last loop
C20_Witness ==
    /\ pc = "done"
    /\ N = 2
    /\ Len(ledger) >= 5
    /\ ledger[1].stock = 0 /\ ledger[2].stock = 1
    /\ \E i \in LoopEntries : \E j \in LoopEntries :
           /\ i < j /\ j < Len(ledger)
           /\ ledger[i].type = "buy" /\ ledger[j].type = "sell"
           /\ ledger[j].date < Days - 1
    /\ ledger[Len(ledger)].date = Days - 1
    /\ ledger[Len(ledger)].stock # ledger[Len(ledger) - 1].stock

\* C21: in a run of random, crossing_averages or momentum with amount >=
\* fees, every sell entry of the ledger, written by the decision loop or by
\* the last loop, has a share count of at least 1.
C21_NoZeroShareSells ==
    FGe(args.amount, args.fees) =>
        \A i \in Entries : (ledger[i].type = "sell") => ledger[i].shares >= 1

\* C21 witness: a finished run on two stocks in which the decision loop
\* sold stock 0, whose price on the last day is defined, before the last
\* day and did not buy it again, so that the last loop found it held with 0
\* shares and wrote no entry for it, while it sold stock 1
C21_Witness ==
    /\ pc = "done"
    /\ N = 2
    /\ FGe(args.amount, args.fees)
    /\ ~IsNan(stock_prices[Days - 1][0])
    /\ ~Traded("sell", Days - 1, 0)
    /\ \E i \in LoopEntries :
           /\ ledger[i].type = "sell" /\ ledger[i].stock = 0
           /\ ledger[i].date < Days - 1
           /\ \A j \in LoopEntries : (j > i) => ledger[j].stock # 0
    /\ ledger[Len(ledger)].type = "sell"
    /\ ledger[Len(ledger)].stock = 1
    /\ ledger[Len(ledger)].date = Days - 1

---------------------------------------------------------------------------
(* The decision loop of crossing_averages and momentum as a function of    *)
(* the price matrix, to compare the runs on two matrices.                  *)

ColumnOf(matrix, stock) == [d \in DOMAIN matrix |-> matrix[d][stock]]

\* the matrix that agrees with `matrix` on the days 0 .. d and in which
\* every company has failed after day d
Truncated(matrix, d) ==
    [x \in DOMAIN matrix |->
        [stock \in DOMAIN matrix[x] |->
            IF x <= d THEN matrix[x][stock] ELSE NaN]]

\* the series the running policy computes from a matrix before its loop
SeriesOf(matrix) ==
    IF args.policy = "crossing"
    THEN [SMA |-> [stock \in DOMAIN matrix[0] |->
                      MovingAverage(ColumnOf(matrix, stock), args.n)],
          FMA |-> [stock \in DOMAIN matrix[0] |->
                      MovingAverage(ColumnOf(matrix, stock), args.m)]]
    ELSE [osc |-> [stock \in DOMAIN matrix[0] |->
                      MovingAverage(Oscillator(ColumnOf(matrix, stock),
                                               args.n, args.osc_type),
                                    period_ave)]]

\* holdings and counters when the loop starts; no operation executed yet
\* and no exception raised (raised is the day of the exception)
AtLoopStart(matrix) ==
    [portfolio |-> [stock \in DOMAIN matrix[0] |->
                       SharesBought(args.available_amounts[stock], args.fees,
                                    matrix[0][stock])],
     cool_off |-> [stock \in DOMAIN matrix[0] |-> args.cool_off_period],
     ops |-> <<>>,
     raised |-> -1]

Bought(matrix, st, day, stock) ==
    IF IsNan(matrix[day][stock])
    THEN [st EXCEPT !.raised = day]
    ELSE LET shares == SharesBought(args.amount, args.fees, matrix[day][stock])
         IN  [st EXCEPT !.portfolio[stock] = @ + shares,
                        !.ops = Append(@, LogTransaction("buy", day, stock,
                                     shares, matrix[day][stock], args.fees))]

Sold(matrix, st, day, stock) ==
    [st EXCEPT !.portfolio[stock] = 0,
               !.ops = Append(@, LogTransaction("sell", day, stock,
                            st.portfolio[stock], matrix[day][stock],
                            args.fees))]

\* the state after the decision for (day, stock)
Decide(matrix, ser, st, day, stock) ==
    IF args.policy = "crossing"
    THEN LET SMA == ser.SMA[stock]
             FMA == ser.FMA[stock]
         IN  IF CrossingSkips(SMA, day, args.n) THEN st
             ELSE IF CrossingIndexError(FMA, SMA, day, args.m, args.n)
             THEN [st EXCEPT !.raised = day]
             ELSE IF CrossFromBelow(FMA, SMA, day, args.m, args.n)
             THEN Bought(matrix, st, day, stock)
             ELSE IF /\ CrossFromAbove(FMA, SMA, day, args.m, args.n)
                     /\ st.portfolio[stock] # 0
             THEN Sold(matrix, st, day, stock)
             ELSE st
    ELSE LET osc == ser.osc[stock]
             k == StartDay(args.n)
         IN  IF MomentumSkips(osc, day, k) THEN st
             ELSE IF /\ FGt(osc[day - k], args.T_over)
                     /\ st.portfolio[stock] # 0
             THEN Sold(matrix, st, day, stock)
             ELSE IF /\ FLt(osc[day - k], args.T_under)
                     /\ CoolOffReady(st.cool_off[stock], args.cool_off_period)
             THEN LET b == Bought(matrix, st, day, stock)
                  IN  IF b.raised >= 0 THEN b
                      ELSE [b EXCEPT !.cool_off[stock] = 0]
             ELSE st

\* the counters after the first loop of a trade day of momentum
Ticked(st) ==
    IF args.policy = "momentum"
    THEN [st EXCEPT !.cool_off =
              [stock \in DOMAIN @ |->
                  IF @[stock] < args.cool_off_period
                  THEN @[stock] + 1 ELSE @[stock]]]
    ELSE st

\* the state after the decisions from (day, stock) on, to the last day or
\* to an exception
RECURSIVE DecideFrom(_, _, _, _, _)
DecideFrom(matrix, ser, st, day, stock) ==
    IF day >= Len0(matrix) \/ st.raised >= 0 THEN st
    ELSE LET now == Decide(matrix, ser,
                           IF stock = 0 THEN Ticked(st) ELSE st, day, stock)
         IN  IF stock + 1 < Len0(matrix[0])
             THEN DecideFrom(matrix, ser, now, day, stock + 1)
             ELSE DecideFrom(matrix, ser, now, day + 1, 0)

\* the first trade day of the running policy
FirstTradeDay ==
    IF args.policy = "crossing" THEN args.n + 1 ELSE StartDay(args.n)

\* what the decision loop of a run on `matrix` executes on the days 0 .. d:
\* the ledger entries of its Buy and Sell operations, in order, and the day
\* on which it raised, if any
ExecutedOn(matrix, d) ==
    LET run == DecideFrom(matrix, SeriesOf(matrix), AtLoopStart(matrix),
                          FirstTradeDay, 0)
        Early(e) == e.date <= d
    IN  [ops |-> SelectSeq(run.ops, Early),
         raised |-> IF run.raised <= d THEN run.raised ELSE -1]

\* the decision loop of the run is over, by its end or by an exception,
\* and the last loop has not started
LoopIsOver == pc = "error" \/ (pc = "flush" /\ stock_number = 0)

\* what the decision loop of this run executed on the days 0 .. d
Executed(d) ==
    LET Early(e) == e.date <= d
    IN  [ops |-> SelectSeq(SubSeq(ledger, N + 1, Len(ledger)), Early),
         raised |-> IF pc = "error" /\ trade_day <= d THEN trade_day ELSE -1]

\* C22: for crossing_averages and momentum, two runs whose price matrices
\* agree on the days 0 .. d execute the same Buy and Sell operations (same
\* stocks, shares and prices) in their decision loops on every day <= d:
\* the run on a matrix executes there what the run executes on the matrix
\* that agrees with it up to day d and in which every company fails on day
\* d+1, so that a series cut short by a failure changes no decision before
\* the failure.
C22_NoLookAhead ==
    (args.policy \in {"crossing", "momentum"} /\ LoopIsOver) =>
        \A d \in 0 .. (Days - 1) :
            ExecutedOn(Truncated(stock_prices, d), d) = Executed(d)

\* C22 witness: the loop of a momentum run is over in which stock 0 was
\* traded on a day before the day it failed, its smoothed oscillator being
\* cut short by the failure
C22_Witness ==
    /\ args.policy = "momentum"
    /\ pc = "flush" /\ stock_number = 0
    /\ IsNan(stock_prices[Days - 1][0])
    /\ Len0(series.osc[0]) > 0
    /\ Len0(series.osc[0]) < Days - StartDay(args.n)
    /\ \E i \in LoopEntries :
           /\ ledger[i].stock = 0
           /\ ~IsNan(stock_prices[ledger[i].date + 1][0])

---------------------------------------------------------------------------
(* Claims about data.py *)

BothSupplied == args.initial_price.given /\ args.volatility.given

\* get_data returned a matrix with one generated column per initial price
ReturnsGeneratedMatrix ==
    /\ pc = "returned"
    /\ output.returned = "sim_data"
    /\ output.printed = <<>>
    /\ Len0(stock_prices) = GetDataDays
    /\ \A d \in DOMAIN stock_prices :
           DOMAIN stock_prices[d] = DOMAIN args.initial_price.list
    /\ \A i \in DOMAIN args.initial_price.list :
           /\ stock_prices[0][i] = args.initial_price.list[i]
           \* the last column is the path the last call of
           \* generate_stock_price returned, made with its own volatility
           /\ (i = Len0(args.initial_price.list) - 1) =>
                  /\ \A d \in DOMAIN stock_prices :
                         stock_prices[d][i] = gen.stock_prices[d]
                  /\ gen.volatility = args.volatility.list[i]

\* get_data reported the problem and returned None without generating
ReportsAndYieldsNothing ==
    /\ pc = "returned"
    /\ output.returned = "None"
    /\ Len(output.printed) = 1
    /\ gen = Empty0
    /\ stock_prices = Empty0

\* get_data has ended, by a return or by an exception
GetDataEnded == pc \in {"returned", "error"}

\* C15 (as claimed): get_data with method 'generate' and a missing
\* initial_price, a missing volatility or both missing reports the problem
\* and returns None without generating any price path; with both supplied
\* it returns a matrix with one generated column per initial price.
C15_ConfigurationErrorsAsClaimed ==
    GetDataEnded =>
        IF BothSupplied THEN ReturnsGeneratedMatrix
        ELSE ReportsAndYieldsNothing

\* C15 (amended): as claimed when the volatility list has an entry for
\* every initial price; with fewer volatilities than initial prices
\* get_data neither reports nor returns: it ends in an IndexError.
C15_ConfigurationErrors ==
    GetDataEnded =>
        IF ~BothSupplied THEN ReportsAndYieldsNothing
        ELSE IF Len0(args.volatility.list) >= Len0(args.initial_price.list)
        THEN ReturnsGeneratedMatrix
        ELSE pc = "error" /\ output = NoOutput

\* C15 witness: get_data returned a matrix of two generated columns, the
\* second of them holding a failure
C15_Witness ==
    /\ pc = "returned"
    /\ output.returned = "sim_data"
    /\ Len0(args.initial_price.list) = 2
    /\ IsNan(stock_prices[GetDataDays - 1][1])
    /\ ~IsNan(stock_prices[GetDataDays - 1][0])

\* the sum of the magnitudes of the news events drawn on the days 1 .. e
\* that cover day d: drawn on day x <= d with x + duration > d
RECURSIVE DriftOn(_, _)
DriftOn(d, e) ==
    IF e = 0 THEN F(0)
    ELSE IF e <= d /\ e + Len0(gen.news[e]) > d
         THEN FAdd(DriftOn(d, e - 1), gen.news[e][0])
         ELSE DriftOn(d, e - 1)

\* C18: in generate_stock_price the drift added to the price of day d is
\* the sum of the magnitudes of the news events drawn on days e with
\* 1 <= e <= d and e + duration_e > d; an event drawn on day e changes the
\* drift of the days e .. min(e + duration_e, D) - 1 and of no other day,
\* neither before e nor, by wrapping, past the horizon.
C18_DriftAccumulation ==
    (pc \in {"gen", "gen_done"} /\ args = NoArgs) =>
        /\ \A d \in 0 .. (gen.days - 1) :
               gen.totalDrift[d] = DriftOn(d, gen.day - 1)
        /\ \A d \in 1 .. (gen.day - 1) :
               LET p == gen.stock_prices
               IN  (~IsNan(p[d])) =>
                       p[d] = FAdd(FAdd(p[d - 1], gen.inc[d]), DriftOn(d, d))

\* C18 witness: a returned path on whose last day, which has a price, two
\* events of different magnitudes overlap, the later of them cut short by
\* the horizon
C18_Witness ==
    /\ pc = "gen_done"
    /\ ~IsNan(gen.stock_prices[gen.days - 1])
    /\ \E e \in 1 .. (gen.days - 1) : \E x \in 1 .. (gen.days - 1) :
           /\ e < x
           /\ e + Len0(gen.news[e]) >= gen.days
           /\ x + Len0(gen.news[x]) > gen.days
           /\ gen.news[e][0] # F(0) /\ gen.news[x][0] # F(0)
           /\ gen.news[e][0] # gen.news[x][0]

---------------------------------------------------------------------------
(* Claims about indicators.py *)

\* the first failure day of a path, its length if it never fails
FirstFailure(path) ==
    IF \E i \in DOMAIN path : IsNan(path[i])
    THEN CHOOSE i \in DOMAIN path :
             IsNan(path[i]) /\ \A j \in DOMAIN path : IsNan(path[j]) => i <= j
    ELSE Len0(path)

Max0(i) == IF i > 0 THEN i ELSE 0

NonFailureDays(path) == Cardinality({i \in DOMAIN path : ~IsNan(path[i])})

\* C8 (as claimed): moving_average returns exactly N-n+1 values for a path
\* of N days without failure and max(0, f-n+1) values when the first failure
\* day is f < N, so never more than the non-failure days minus (n-1).
C8_LengthAsClaimed ==
    (pc = "ind_ma") =>
        LET len == Len0(ind.stock_price)
            f == FirstFailure(ind.stock_price)
        IN  /\ (f = len) => Len0(ind.ma) = len - ind.n + 1
            /\ (f < len) => Len0(ind.ma) = Max0(f - ind.n + 1)
            /\ Len0(ind.ma) <= NonFailureDays(ind.stock_price) - (ind.n - 1)

\* C8 (amended): moving_average returns exactly max(0, N-n+1) values for a
\* path of N days without failure and max(0, f-n+1) values when the first
\* failure day is f < N, so never more than max(0, non-failure days - (n-1)).
C8_Length ==
    (pc = "ind_ma") =>
        LET len == Len0(ind.stock_price)
            f == FirstFailure(ind.stock_price)
        IN  /\ (f = len) => Len0(ind.ma) = Max0(len - ind.n + 1)
            /\ (f < len) => Len0(ind.ma) = Max0(f - ind.n + 1)
            /\ Len0(ind.ma) <= Max0(NonFailureDays(ind.stock_price) - (ind.n - 1))

\* a path that fails after its first full window: the series is cut short
C8_Witness ==
    /\ pc = "ind_ma"
    /\ FirstFailure(ind.stock_price) < Len0(ind.stock_price)
    /\ Len0(ind.ma) > 0
    /\ Len0(ind.ma) < Len0(ind.stock_price) - ind.n + 1

\* the window of n days ending at day i, as a set of days
WindowDays(n, i) == (i - n + 1) .. i

\* C9: every value the stochastic oscillator emits for a failure-permanent
\* path is the undefined marker exactly when the n-day window ending at its
\* day has max = min, and otherwise lies in [0,1] and equals
\* (price[i] - lo) / (hi - lo).
C9_StochasticRange ==
    (pc = "ind_osc" /\ ind.osc_type = "stochastic") =>
        \A j \in DOMAIN ind.osc :
            LET i == j + ind.n - 1
                p == ind.stock_price
                hi == CHOOSE t \in WindowDays(ind.n, i) :
                          \A u \in WindowDays(ind.n, i) : p[u][1] <= p[t][1]
                lo == CHOOSE t \in WindowDays(ind.n, i) :
                          \A u \in WindowDays(ind.n, i) : p[u][1] >= p[t][1]
                v == ind.osc[j]
            IN  /\ IsNan(v) <=> (p[hi] = p[lo])
                /\ ~IsNan(v) =>
                      /\ v[1] >= 0 /\ v[1] <= v[2]
                      /\ v[1] * (p[hi][1] - p[lo][1]) = v[2] * (p[i][1] - p[lo][1])

\* a series that holds an undefined value, a 1 and a value strictly between
\* 0 and 1
C9_Witness ==
    /\ pc = "ind_osc" /\ ind.osc_type = "stochastic"
    /\ \E j \in DOMAIN ind.osc : IsNan(ind.osc[j])
    /\ \E j \in DOMAIN ind.osc : ind.osc[j] = F(1)
    /\ \E j \in DOMAIN ind.osc : FGt(ind.osc[j], F(0)) /\ FLt(ind.osc[j], F(1))

RECURSIVE SumOver(_, _)
SumOver(f, S) ==
    IF S = {} THEN 0
    ELSE LET x == CHOOSE y \in S : TRUE IN f[x] + SumOver(f, S \ {x})

===========================================================================
